---- MODULE Spec2Model ----
(***************************************************************************)
(* Model of pysealevel/__init__.py: _get_all_forecast_from_api (parsing    *)
(* and grouping of the time series) and _get_forecast (per-day             *)
(* aggregation).                                                           *)
(*                                                                         *)
(* Units.  Python floats are modelled by scaled integers, on inputs whose  *)
(* values and products are exactly representable in binary floating point  *)
(* so that Python's round() is exact round-half-to-even:                   *)
(*   t, ws, vis, gust     tenths                                           *)
(*   pmean                hundredths of mm/h (multiples of 0.25 mm/h)      *)
(*   total_precipitation  hundredths of mm                                 *)
(*   mean_precipitation   a fraction [num, den] of hundredths of mm        *)
(*   total_hours_last_forecast   seconds (3600 is 1.0 hour)                *)
(* Objects (SmhiForecast instances) live in a heap, a sequence indexed by  *)
(* object identity, so that copy.deepcopy and plain references differ.     *)
(* The class SmhiForecast itself is not defined in the module (as the file *)
(* stands the call fails with NameError); it is modelled from the          *)
(* specification's data model, see SmhiForecast below.                     *)
(***************************************************************************)
EXTENDS Integers, Sequences, FiniteSets, TLC

\* Longest timeSeries drawn for the bounded inputs.
MaxLen == 3

None == 0

(***************************************************************************)
(* datetime: validTime strings "2021-MM-DDTHH:MM:00Z" are modelled by      *)
(* their components.                                                       *)
(***************************************************************************)
DT(mo, d, h, mi) == [month |-> mo, day |-> d, hour |-> h, minute |-> mi]

\* last_time = None: no datetime has these components
NoTime == DT(0, 0, 0, 0)

\* Days in each month of 2021.
DaysInMonth(mo) == IF mo = 2 THEN 28
                   ELSE IF mo \in {4, 6, 9, 11} THEN 30 ELSE 31

RECURSIVE DaysBefore(_)
DaysBefore(mo) == IF mo <= 1 THEN 0 ELSE DaysInMonth(mo - 1) + DaysBefore(mo - 1)

\* datetime.strptime(s, "%Y-%m-%dT%H:%M:%SZ") succeeds
StrptimeOk(s) ==
    /\ s.month \in 1..12
    /\ s.day \in 1..DaysInMonth(s.month)
    /\ s.hour \in 0..23
    /\ s.minute \in 0..59

\* seconds since the start of the year
Timestamp(vt) ==
    ((DaysBefore(vt.month) + vt.day - 1) * 24 + vt.hour) * 3600 + vt.minute * 60

\* (a - b).seconds : the seconds component of the normalised timedelta,
\* always in 0..86399; whole days are carried by .days and are not part of it.
TimedeltaSeconds(a, b) == (Timestamp(a) - Timestamp(b)) % 86400

\* Python round(): n/d rounded to the nearest integer, ties to even (d > 0).
RoundHalfEven(n, d) ==
    LET q == n \div d
        r == n % d
    IN  IF 2 * r < d THEN q
        ELSE IF 2 * r > d THEN q + 1
        ELSE IF q % 2 = 0 THEN q ELSE q + 1

\* tcc_mean: octas to percent
Cloudiness(octa) ==
    IF 0 <= octa /\ octa <= 8 THEN RoundHalfEven(100 * octa, 8) ELSE 100

\* The local variable each recognised parameter name is assigned to.
ParamVar ==
    [t |-> "temperature", r |-> "humidity", msl |-> "pressure",
     tstm |-> "thunder", tcc_mean |-> "cloudiness", Wsymb2 |-> "symbol",
     pcat |-> "precipitation", pmean |-> "mean_precipitation",
     ws |-> "wind_speed", wd |-> "wind_direction",
     vis |-> "horizontal_visibility", gust |-> "wind_gust"]

Recognized == DOMAIN ParamVar

LocalNames == {ParamVar[n] : n \in Recognized}

\* One branch of the if/elif chain: the locals after `param` is handled.
\* locals is a function whose domain is the set of locals bound so far.
SetParam(locals, param) ==
    IF param.name \notin Recognized THEN locals
    ELSE LET v == IF param.name = "tcc_mean" THEN Cloudiness(param.value)
                  ELSE param.value
             var == ParamVar[param.name]
         IN  [x \in (DOMAIN locals) \cup {var} |->
                  IF x = var THEN v ELSE locals[x]]

\* for param in forecast["parameters"]
RECURSIVE ExtractParams(_, _)
ExtractParams(locals, params) ==
    IF params = <<>> THEN locals
    ELSE ExtractParams(SetParam(locals, Head(params)), Tail(params))

\* tp = round(mean_precipitation * total_hours_last_forecast, 2)
PrecipOver(mean_precipitation, seconds) ==
    RoundHalfEven(mean_precipitation * seconds, 3600)

\* The sixteen positional arguments of the call SmhiForecast(...) made for
\* one entry, in the order of the call.
ForecastArgs(l, total_hours, valid_time) ==
    LET roundedTemp == RoundHalfEven(l.temperature, 10)
    IN  << roundedTemp,
           roundedTemp,
           roundedTemp,
           l.humidity,
           l.pressure,
           l.thunder,
           l.cloudiness,
           l.precipitation,
           l.wind_direction,
           l.wind_speed,
           l.horizontal_visibility,
           l.wind_gust,
           [num |-> 10 * RoundHalfEven(l.mean_precipitation, 10), den |-> 1],
           PrecipOver(l.mean_precipitation, total_hours),
           l.symbol,
           valid_time >>

\* The class SmhiForecast.  The module calls it and reads and writes its
\* attributes but does not define it; the record below follows the data
\* model of the specification (RawSample: the three temperature fields are
\* the rounded temperature, the mean intensity is stored rounded, the
\* derived total_precipitation, the timestamp), each positional argument
\* stored in the attribute of the same position.
SmhiForecast(a) ==
    [temperature |-> a[1],
     temperature_max |-> a[2],
     temperature_min |-> a[3],
     humidity |-> a[4],
     pressure |-> a[5],
     thunder |-> a[6],
     cloudiness |-> a[7],
     precipitation |-> a[8],
     wind_direction |-> a[9],
     wind_speed |-> a[10],
     horizontal_visibility |-> a[11],
     wind_gust |-> a[12],
     mean_precipitation |-> a[13],
     total_precipitation |-> a[14],
     symbol |-> a[15],
     valid_time |-> a[16]]

\* The key an entry is grouped under.
GroupKeyFullDate(valid_time) == valid_time.month * 100 + valid_time.day
GroupKey(valid_time) == valid_time.day

IndexOfDay(ordered, day) ==
    IF \E k \in 1..Len(ordered) : ordered[k].day = day
    THEN CHOOSE k \in 1..Len(ordered) : ordered[k].day = day
    ELSE 0

\* forecasts_ordered[day].append(forecast), creating the list when the day
\* is not yet a key; an OrderedDict keeps keys in insertion order.
AddToDayRuns(ordered, day, id) ==
    IF ordered # <<>> /\ ordered[Len(ordered)].day = day
    THEN [ordered EXCEPT ![Len(ordered)].list = Append(@, id)]
    ELSE Append(ordered, [day |-> day, list |-> <<id>>])
AddToDay(ordered, day, id) ==
    LET k == IndexOfDay(ordered, day)
    IN  IF k = 0 THEN Append(ordered, [day |-> day, list |-> <<id>>])
        ELSE [ordered EXCEPT ![k].list = Append(@, id)]

\* copy.deepcopy(heap[id]): a fresh object with equal fields.
DeepCopyAlias(h, id) == [heap |-> h, id |-> id]
DeepCopy(h, id) == [heap |-> Append(h, h[id]), id |-> Len(h) + 1]

\* if day_nr == 1
IsFirstDayAlways(n) == TRUE
IsFirstDay(n) == n = 1

\* if forcast_day.valid_time.hour == 12: whether the scanned entry becomes
\* the day's representative; chosen is the one picked so far (None if none).
IsNoonEntryFirstOnly(chosen, valid_time) == valid_time.hour = 12 /\ chosen = None
IsNoonEntry(chosen, valid_time) == valid_time.hour = 12

\* total_precipitation = total_precipitation + forcast_day._total_precipitation
AddPrecipitationLast(total, tp) == tp
AddPrecipitation(total, tp) == total + tp

(***************************************************************************)
(* Inputs                                                                  *)
(***************************************************************************)
Param(n, v) == [name |-> n, value |-> v]

\* A complete entry: every recognised parameter, plus one the code ignores.
FullParams(t, pmean, octa) ==
    << Param("spp", 0), Param("t", t), Param("r", 80), Param("msl", 1013),
       Param("tstm", 5), Param("tcc_mean", octa), Param("Wsymb2", 3),
       Param("pcat", 1), Param("pmean", pmean), Param("ws", 32),
       Param("wd", 270), Param("vis", 105), Param("gust", 67) >>

\* An entry without the parameter t.
NoTempParams(pmean, octa) == Tail(Tail(FullParams(0, pmean, octa)))

ParamProfiles ==
    { FullParams(205, 100, 4),
      FullParams(-1504, 25, 9) }

Feb1_10 == DT(2, 1, 10, 0)
Feb1_12 == DT(2, 1, 12, 0)
Feb1_1230 == DT(2, 1, 12, 30)
Feb2_12 == DT(2, 2, 12, 0)
Mar1_12 == DT(3, 1, 12, 0)
Feb30 == DT(2, 30, 12, 0)

ValidTimes == {Feb1_10, Feb1_12, Feb1_1230, Feb2_12, Mar1_12}

\* complete entries at every time, an entry without t at one of the times,
\* and one entry whose validTime is no date
Entries ==
    [validTime : ValidTimes, parameters : ParamProfiles]
    \cup {[validTime |-> Feb1_12, parameters |-> NoTempParams(75, 3)]}
    \cup {[validTime |-> Feb30, parameters |-> FullParams(205, 100, 4)]}

RECURSIVE SeqsUpTo(_, _)
SeqsUpTo(S, n) ==
    IF n = 0 THEN {<<>>}
    ELSE LET shorter == SeqsUpTo(S, n - 1)
         IN  shorter \cup {Append(s, e) : s \in {x \in shorter : Len(x) = n - 1}, e \in S}

\* Two days of hourly entries, 1 Feb 00:00 to 2 Feb 23:00, pmean 1.0 mm/h.
HourlyTwoDays ==
    [k \in 1..(2 * 24) |->
        [validTime |-> DT(2, 1 + ((k - 1) \div 24), (k - 1) % 24, 0),
         parameters |-> FullParams(205, 100, 4)]]

\* api_result: a dict that has the key "timeSeries" or lacks it.
ApiResults ==
    {[hasTimeSeries |-> TRUE, timeSeries |-> s] : s \in SeqsUpTo(Entries, MaxLen)}
    \cup {[hasTimeSeries |-> TRUE, timeSeries |-> HourlyTwoDays]}
    \cup {[hasTimeSeries |-> FALSE, timeSeries |-> <<>>]}

(***************************************************************************)
(* State                                                                   *)
(***************************************************************************)
VARIABLES
    api_result,                 \* the argument of _get_forecast
    pc,                         \* "parse", "days", "scan", "done", "error"
    error,                      \* the exception raised, "" when none
    pos,                        \* 1-based position of the timeSeries loop
    locals,                     \* temperature, humidity, ... (bound ones)
    last_time,                  \* NoTime or a datetime
    total_hours_last_forecast,  \* in seconds
    forecasts_ordered,          \* sequence of [day, list of object ids]
    heap,                       \* SmhiForecast objects by identity
    forecasts,                  \* the result list (object ids)
    day_nr,
    entry_nr,                   \* position of the loop over forecasts_day
    total_precipitation,
    forecast_temp_max,
    forecast_temp_min,
    forecast                    \* None or an object id

parseVars == <<pos, locals, last_time, total_hours_last_forecast, forecasts_ordered>>
scanVars == <<entry_nr, total_precipitation, forecast_temp_max, forecast_temp_min, forecast>>
vars == <<api_result, pc, error, parseVars, heap, forecasts, day_nr, scanVars>>

Init ==
    /\ api_result \in ApiResults
    /\ pc = "parse"
    /\ error = ""
    /\ pos = 1
    /\ locals = << >>
    /\ last_time = NoTime
    /\ total_hours_last_forecast = 3600
    /\ forecasts_ordered = <<>>
    /\ heap = <<>>
    /\ forecasts = <<>>
    /\ day_nr = 1
    /\ entry_nr = 1
    /\ total_precipitation = 0
    /\ forecast_temp_max = -100
    /\ forecast_temp_min = 100
    /\ forecast = None

Raise(e) ==
    /\ pc' = "error"
    /\ error' = e
    /\ UNCHANGED <<api_result, parseVars, heap, forecasts, day_nr, scanVars>>

(***************************************************************************)
(* _get_all_forecast_from_api                                              *)
(***************************************************************************)
\* api_result["timeSeries"] on a dict without that key
TimeSeriesMissing ==
    /\ pc = "parse"
    /\ ~api_result.hasTimeSeries
    /\ Raise("KeyError")

InLoop ==
    /\ pc = "parse"
    /\ api_result.hasTimeSeries
    /\ pos <= Len(api_result.timeSeries)

CurrentEntry == api_result.timeSeries[pos]

\* strptime rejects the validTime
ParseTimeFails ==
    /\ InLoop
    /\ ~StrptimeOk(CurrentEntry.validTime)
    /\ Raise("ValueError")

\* a local is read before any entry has assigned it
ParseUnbound ==
    /\ InLoop
    /\ StrptimeOk(CurrentEntry.validTime)
    /\ DOMAIN ExtractParams(locals, CurrentEntry.parameters) # LocalNames
    /\ Raise("UnboundLocalError")

\* one pass of the loop over api_result["timeSeries"]
ParseEntry ==
    /\ InLoop
    /\ StrptimeOk(CurrentEntry.validTime)
    /\ LET valid_time == CurrentEntry.validTime
           l == ExtractParams(locals, CurrentEntry.parameters)
           hours == IF last_time # NoTime
                    THEN TimedeltaSeconds(valid_time, last_time)
                    ELSE total_hours_last_forecast
       IN  /\ DOMAIN l = LocalNames
           /\ locals' = l
           /\ total_hours_last_forecast' = hours
           /\ heap' = Append(heap, SmhiForecast(ForecastArgs(l, hours, valid_time)))
           /\ forecasts_ordered' =
                  AddToDay(forecasts_ordered, GroupKey(valid_time), Len(heap) + 1)
           /\ last_time' = valid_time
    /\ pos' = pos + 1
    /\ UNCHANGED <<api_result, pc, error, forecasts, day_nr, scanVars>>

\* return forecasts_ordered
ParseReturn ==
    /\ pc = "parse"
    /\ api_result.hasTimeSeries
    /\ pos > Len(api_result.timeSeries)
    /\ pc' = "days"
    /\ UNCHANGED <<api_result, error, parseVars, heap, forecasts, day_nr, scanVars>>

(***************************************************************************)
(* _get_forecast                                                           *)
(***************************************************************************)
forecasts_day == forecasts_ordered[day_nr].list

\* top of the loop over the days: the current-conditions copy on the first
\* day, then the accumulators are reset
StartDay ==
    /\ pc = "days"
    /\ day_nr <= Len(forecasts_ordered)
    /\ IF IsFirstDay(day_nr)
       THEN LET c == DeepCopy(heap, forecasts_day[1])
            IN  /\ heap' = c.heap
                /\ forecasts' = Append(forecasts, c.id)
       ELSE UNCHANGED <<heap, forecasts>>
    /\ total_precipitation' = 0
    /\ forecast_temp_max' = -100
    /\ forecast_temp_min' = 100
    /\ forecast' = None
    /\ entry_nr' = 1
    /\ pc' = "scan"
    /\ UNCHANGED <<api_result, error, parseVars, day_nr>>

\* one pass of the loop over forecasts_day
ScanEntry ==
    /\ pc = "scan"
    /\ entry_nr <= Len(forecasts_day)
    /\ LET id == forecasts_day[entry_nr]
           temperature == heap[id].temperature
       IN  /\ forecast_temp_min' =
                  IF forecast_temp_min > temperature THEN temperature
                  ELSE forecast_temp_min
           /\ forecast_temp_max' =
                  IF forecast_temp_max < temperature THEN temperature
                  ELSE forecast_temp_max
           /\ IF IsNoonEntry(forecast, heap[id].valid_time)
              THEN LET c == DeepCopy(heap, id)
                   IN  heap' = c.heap /\ forecast' = c.id
              ELSE UNCHANGED <<heap, forecast>>
           /\ total_precipitation' =
                  AddPrecipitation(total_precipitation, heap[id].total_precipitation)
    /\ entry_nr' = entry_nr + 1
    /\ UNCHANGED <<api_result, pc, error, parseVars, forecasts, day_nr>>

\* after the scan: fall back to the day's first entry, write the aggregates
FinishDay ==
    /\ pc = "scan"
    /\ entry_nr > Len(forecasts_day)
    /\ LET chosen == IF forecast = None THEN forecasts_day[1] ELSE forecast
       IN  /\ forecast' = chosen
           /\ heap' = [heap EXCEPT
                  ![chosen].temperature_max = forecast_temp_max,
                  ![chosen].temperature_min = forecast_temp_min,
                  ![chosen].total_precipitation = total_precipitation,
                  ![chosen].mean_precipitation =
                      [num |-> total_precipitation, den |-> 24]]
           /\ forecasts' = Append(forecasts, chosen)
    /\ day_nr' = day_nr + 1
    /\ pc' = "days"
    /\ UNCHANGED <<api_result, error, parseVars, entry_nr, total_precipitation,
                   forecast_temp_max, forecast_temp_min>>

\* return forecasts
Return ==
    /\ pc = "days"
    /\ day_nr > Len(forecasts_ordered)
    /\ pc' = "done"
    /\ UNCHANGED <<api_result, error, parseVars, heap, forecasts, day_nr, scanVars>>

Next ==
    \/ TimeSeriesMissing
    \/ ParseTimeFails
    \/ ParseUnbound
    \/ ParseEntry
    \/ ParseReturn
    \/ StartDay
    \/ ScanEntry
    \/ FinishDay
    \/ Return

Spec == Init /\ [][Next]_vars

(***************************************************************************)
(* Vocabulary of the properties                                            *)
(***************************************************************************)
TimeSeries == api_result.timeSeries

Returned == pc = "done"

ParamNames(entry) == {entry.parameters[i].name : i \in 1..Len(entry.parameters)}

\* the entry supplies every recognised parameter
Complete(entry) == Recognized \subseteq ParamNames(entry)

\* the value the entry gives for a parameter it supplies
ParamValue(entry, n) ==
    LET i == CHOOSE j \in 1..Len(entry.parameters) : entry.parameters[j].name = n
    IN  entry.parameters[i].value

WellFormed ==
    /\ api_result.hasTimeSeries
    /\ \A k \in 1..Len(TimeSeries) :
           StrptimeOk(TimeSeries[k].validTime) /\ Complete(TimeSeries[k])

DaysOfInput == {TimeSeries[k].validTime.day : k \in 1..Len(TimeSeries)}

\* the day-of-month values in the order in which they first appear
RECURSIVE FirstAppearance(_, _)
FirstAppearance(n, seen) ==
    IF n > Len(TimeSeries) THEN <<>>
    ELSE LET d == TimeSeries[n].validTime.day
         IN  IF d \in seen THEN FirstAppearance(n + 1, seen)
             ELSE <<d>> \o FirstAppearance(n + 1, seen \cup {d})

\* the positions of the entries of day d, in input order
PositionsOfDay(d) ==
    LET OnDay(k) == TimeSeries[k].validTime.day = d
    IN  SelectSeq([k \in 1..Len(TimeSeries) |-> k], OnDay)

Range(f) == {f[i] : i \in DOMAIN f}

\* identities of the samples held by the grouped series
GroupedIds == UNION {Range(forecasts_ordered[k].list) : k \in 1..Len(forecasts_ordered)}

AggregateFields ==
    {"temperature_max", "temperature_min", "total_precipitation", "mean_precipitation"}

\* valid_time and the raw measurements of a record
NonAggregate(rec) == [f \in (DOMAIN rec) \ AggregateFields |-> rec[f]]

NoonIds(list) == {i \in 1..Len(list) : heap[list[i]].valid_time.hour = 12}

Least(S) == CHOOSE x \in S : \A y \in S : x <= y
Greatest(S) == CHOOSE x \in S : \A y \in S : x >= y

RECURSIVE SumPrecipitation(_, _)
SumPrecipitation(h, list) ==
    IF list = <<>> THEN 0
    ELSE h[Head(list)].total_precipitation + SumPrecipitation(h, Tail(list))

\* the aggregated record of the k-th day group
DayRecord(k) == heap[forecasts[k + 1]]

(***************************************************************************)
(* C1  For a non-empty time series of well-formed entries the returned     *)
(* list has exactly 1 + (number of distinct day-of-month values) elements. *)
(***************************************************************************)
C1_Length ==
    (Returned /\ WellFormed /\ TimeSeries # <<>>)
        => Len(forecasts) = 1 + Cardinality(DaysOfInput)

C1_Witness ==
    /\ Returned /\ WellFormed
    /\ Len(TimeSeries) = 3
    /\ Cardinality(DaysOfInput) = 2
    /\ Len(forecasts) = 3

(***************************************************************************)
(* C2  The first returned element is an object of its own whose fields,    *)
(* after the whole transform, are the per-entry values of the first input  *)
(* entry (temperature_max = temperature_min = rounded temperature, the     *)
(* one-hour precipitation, the rounded mean intensity), also when the      *)
(* first entry itself is the first day's representative.                   *)
(***************************************************************************)
C2_CurrentIsIndependentCopy ==
    (Returned /\ TimeSeries # <<>>) =>
        LET first == TimeSeries[1]
            t == RoundHalfEven(ParamValue(first, "t"), 10)
            cur == heap[forecasts[1]]
        IN  /\ forecasts[1] \notin GroupedIds
            /\ \A k \in 2..Len(forecasts) : forecasts[k] # forecasts[1]
            /\ cur = SmhiForecast(ForecastArgs(
                       ExtractParams(<< >>, first.parameters), 3600,
                       first.validTime))
            /\ cur.temperature_max = t /\ cur.temperature_min = t
            /\ cur.total_precipitation =
                   RoundHalfEven(ParamValue(first, "pmean"), 1)
            /\ cur.mean_precipitation.den = 1

\* the first day has no hour-12 entry, so the first entry is its
\* representative, and aggregation gave it values the copy does not have
C2_Witness ==
    /\ Returned /\ TimeSeries # <<>>
    /\ forecasts[2] = forecasts_ordered[1].list[1]
    /\ heap[forecasts[2]].total_precipitation # heap[forecasts[1]].total_precipitation
    /\ heap[forecasts[2]].temperature_min # heap[forecasts[1]].temperature_min

(***************************************************************************)
(* C3  As claimed: the non-aggregate fields of a day's record are those of *)
(* the FIRST entry of the group with hour 12, or of the group's first      *)
(* entry when none has hour 12.                                            *)
(***************************************************************************)
C3_FirstNoonEntry ==
    Returned =>
        \A k \in 1..Len(forecasts_ordered) :
            LET list == forecasts_ordered[k].list
                src == IF NoonIds(list) = {} THEN list[1]
                       ELSE list[Least(NoonIds(list))]
            IN  NonAggregate(DayRecord(k)) = NonAggregate(heap[src])

(***************************************************************************)
(* C3 amended  The non-aggregate fields of a day's record are those of the *)
(* LAST entry of the group, in input order, with hour 12, or of the        *)
(* group's first entry when none has hour 12.                              *)
(***************************************************************************)
C3_LastNoonEntry ==
    Returned =>
        \A k \in 1..Len(forecasts_ordered) :
            LET list == forecasts_ordered[k].list
                src == IF NoonIds(list) = {} THEN list[1]
                       ELSE list[Greatest(NoonIds(list))]
            IN  NonAggregate(DayRecord(k)) = NonAggregate(heap[src])

\* a group with two hour-12 entries that differ, and a group with none
C3_Witness ==
    /\ Returned
    /\ \E k \in 1..Len(forecasts_ordered) :
           LET list == forecasts_ordered[k].list
           IN  /\ Cardinality(NoonIds(list)) >= 2
               /\ NonAggregate(heap[list[Least(NoonIds(list))]])
                      # NonAggregate(heap[list[Greatest(NoonIds(list))]])
               /\ NonAggregate(DayRecord(k))
                      = NonAggregate(heap[list[Greatest(NoonIds(list))]])

(***************************************************************************)
(* C4  As claimed: every day's record has temperature_max >=               *)
(* temperature_min, temperature_max the maximum and temperature_min the    *)
(* minimum of the rounded temperatures of the day's entries.               *)
(***************************************************************************)
C4_Extrema ==
    Returned =>
        \A k \in 1..Len(forecasts_ordered) :
            LET temps == {heap[id].temperature : id \in Range(forecasts_ordered[k].list)}
            IN  /\ DayRecord(k).temperature_max >= DayRecord(k).temperature_min
                /\ DayRecord(k).temperature_max = Greatest(temps)
                /\ DayRecord(k).temperature_min = Least(temps)

(***************************************************************************)
(* C5  As claimed: the per-entry total_precipitation is                    *)
(* round(pmean * h, 2), h the full elapsed hours since the preceding       *)
(* entry (1.0 for the first entry), whatever the length of the gap.        *)
(* Stated over chronologically ordered entries, while the series is being  *)
(* read (record k was built from entry k and nothing has rewritten it).    *)
(***************************************************************************)
C5_FullElapsedTime ==
    pc = "parse" =>
        \A k \in 1..Len(heap) :
            LET e == TimeSeries[k]
                elapsed == IF k = 1 THEN 3600
                           ELSE Timestamp(e.validTime)
                                    - Timestamp(TimeSeries[k - 1].validTime)
            IN  (Complete(e) /\ elapsed >= 0) =>
                    heap[k].total_precipitation =
                        RoundHalfEven(ParamValue(e, "pmean") * elapsed, 3600)

(***************************************************************************)
(* C6  When a day's scan ends, the total_precipitation written to the      *)
(* day's record is the sum of the per-entry total_precipitation of every   *)
(* entry of the group, each counted once, and mean_precipitation is that   *)
(* sum over 24; two days of 24 hourly entries with pmean 1.0 give three    *)
(* records, each day with total 24.0 and mean 1.0.                         *)
(***************************************************************************)
C6_DayTotal ==
    /\ [][(pc = "scan" /\ pc' = "days") =>
            LET sum == SumPrecipitation(heap, forecasts_day)
                rec == heap'[forecasts'[Len(forecasts')]]
            IN  /\ rec.total_precipitation = sum
                /\ rec.mean_precipitation = [num |-> sum, den |-> 24]]_vars
    /\ [](( Returned /\ TimeSeries = HourlyTwoDays) =>
            /\ Len(forecasts) = 3
            /\ \A k \in 1..2 :
                   /\ DayRecord(k).total_precipitation = 2400
                   /\ DayRecord(k).mean_precipitation.num
                          = 100 * DayRecord(k).mean_precipitation.den)

C6_Witness ==
    /\ Returned
    /\ TimeSeries = HourlyTwoDays
    /\ Len(forecasts_ordered[1].list) = 24
    /\ DayRecord(1).total_precipitation = 2400
    /\ DayRecord(2).total_precipitation = 2400

(***************************************************************************)
(* C7  As claimed: with timeSeries empty or absent the transform never     *)
(* returns a list.                                                         *)
(***************************************************************************)
C7_EmptyNeverReturns ==
    (~api_result.hasTimeSeries \/ TimeSeries = <<>>) => ~Returned

(***************************************************************************)
(* C8  As claimed: when an entry lacks a recognised parameter no record is *)
(* built for it and the transform returns nothing.                         *)
(***************************************************************************)
C8_MissingParameterFails ==
    /\ pc = "parse" => \A k \in 1..Len(heap) : Complete(TimeSeries[k])
    /\ Returned => \A k \in 1..Len(TimeSeries) : Complete(TimeSeries[k])

(***************************************************************************)
(* C9  The grouped series has one group per day-of-month value, in the     *)
(* order of first appearance; a group holds exactly the entries of that    *)
(* day-of-month, adjacent or not, in input order; the result is the        *)
(* current-conditions record followed by one record per group in that      *)
(* order, each taken from an entry of its group.                           *)
(***************************************************************************)
C9_GroupsInOrder ==
    (Returned /\ TimeSeries # <<>>) =>
        LET days == FirstAppearance(1, {})
        IN  /\ Len(forecasts_ordered) = Len(days)
            /\ Len(forecasts) = 1 + Len(days)
            /\ \A k \in 1..Len(days) :
                   /\ forecasts_ordered[k].day = days[k]
                   /\ forecasts_ordered[k].list = PositionsOfDay(days[k])
                   /\ DayRecord(k).valid_time.day = days[k]
                   /\ \E id \in Range(forecasts_ordered[k].list) :
                          NonAggregate(DayRecord(k)) = NonAggregate(heap[id])

\* day-of-month 1, then 2, then 1 again: the first and third entries share
\* a group although the second lies between them
C9_Witness ==
    /\ Returned
    /\ Len(TimeSeries) = 3
    /\ FirstAppearance(1, {}) = <<1, 2>>
    /\ forecasts_ordered[1].list = <<1, 3>>
    /\ forecasts_ordered[2].list = <<2>>
    /\ DayRecord(2).valid_time.day = 2

(***************************************************************************)
(* C10  As claimed: a day's record is never one of the samples of the      *)
(* grouped series, and every grouped sample keeps the fields it was built  *)
(* with (the three temperatures equal, the mean intensity as read).        *)
(***************************************************************************)
C10_RepresentativeIsCopy ==
    /\ \A k \in 1..Len(forecasts) : forecasts[k] \notin GroupedIds
    /\ \A id \in GroupedIds :
           /\ heap[id].temperature_max = heap[id].temperature
           /\ heap[id].temperature_min = heap[id].temperature
           /\ heap[id].mean_precipitation.den = 1

====
